---- MODULE Spec2Model ----
(***************************************************************************)
(* Model of src/Main.py: the invoice classifier es_factura_logic and the   *)
(* HTTP handler analizar_pdf (POST /es_factura/).                          *)
(*                                                                         *)
(* Text is modelled as strings; a character is a string of length 1.       *)
(* Substring containment and the three regular expressions are computed    *)
(* character by character, as Python's `in` and re.search compute them.    *)
(***************************************************************************)
EXTENDS Integers, Sequences, FiniteSets, TLC

(***************************************************************************)
(* Bounds                                                                  *)
(***************************************************************************)
MaxFrags == 2
MaxPaginas == 2

(***************************************************************************)
(* Characters and character classes (Python str, re module)                *)
(***************************************************************************)
Digitos == {"0", "1", "2", "3", "4", "5", "6", "7", "8", "9"}

Minusculas ==
    {"a", "b", "c", "d", "e", "f", "g", "h", "i", "j", "k", "l", "m", "n",
     "o", "p", "q", "r", "s", "t", "u", "v", "w", "x", "y", "z",
     "á", "é", "í", "ó", "ú", "ñ"}

Mayusculas ==
    {"A", "B", "C", "D", "E", "F", "G", "H", "I", "J", "K", "L", "M", "N",
     "O", "P", "Q", "R", "S", "T", "U", "V", "W", "X", "Y", "Z",
     "Á", "É", "Í", "Ó", "Ú", "Ñ"}

\* str.lower() on one character
lower_char(c) ==
    CASE c = "A" -> "a" [] c = "B" -> "b" [] c = "C" -> "c" [] c = "D" -> "d"
      [] c = "E" -> "e" [] c = "F" -> "f" [] c = "G" -> "g" [] c = "H" -> "h"
      [] c = "I" -> "i" [] c = "J" -> "j" [] c = "K" -> "k" [] c = "L" -> "l"
      [] c = "M" -> "m" [] c = "N" -> "n" [] c = "O" -> "o" [] c = "P" -> "p"
      [] c = "Q" -> "q" [] c = "R" -> "r" [] c = "S" -> "s" [] c = "T" -> "t"
      [] c = "U" -> "u" [] c = "V" -> "v" [] c = "W" -> "w" [] c = "X" -> "x"
      [] c = "Y" -> "y" [] c = "Z" -> "z" [] c = "Á" -> "á" [] c = "É" -> "é"
      [] c = "Í" -> "í" [] c = "Ó" -> "ó" [] c = "Ú" -> "ú" [] c = "Ñ" -> "ñ"
      [] OTHER -> c

\* str.lower()
RECURSIVE lower(_)
lower(s) == IF s = "" THEN "" ELSE lower_char(Head(s)) \o lower(Tail(s))

\* join with the separator dropped
RECURSIVE join_sin_separador(_)
join_sin_separador(lista) ==
    IF lista = <<>> THEN ""
    ELSE Head(lista) \o join_sin_separador(Tail(lista))

\* " ".join(lista)
RECURSIVE join(_)
join(lista) ==
    IF lista = <<>> THEN ""
    ELSE IF Len(lista) = 1 THEN Head(lista)
    ELSE Head(lista) \o " " \o join(Tail(lista))

\* the character at position i (1-based); "" outside the string
CharAt(t, i) == IF i >= 1 /\ i <= Len(t) THEN SubSeq(t, i, i) ELSE ""

\* \d
IsDigit(c) == c \in Digitos

\* the characters \w matches
Palabra == Digitos \cup Minusculas \cup Mayusculas \cup {"_"}

\* \w
IsWord(c) == c \in Palabra

\* \s
IsSpace(c) == c = " "

\* \b between positions i and i+1 (i = 0 is the start, i = Len(t) the end)
WordBoundary(t, i) == IsWord(CharAt(t, i)) # IsWord(CharAt(t, i + 1))

\* \d{n} on t[a..b]
AllDigits(t, a, b) == \A k \in a..b : IsDigit(CharAt(t, k))

\* containment that also accepts a phrase cut off by the end of the text
Contains_truncado(t, p) ==
    \E i \in 0..Len(t) :
        \E n \in 0..Len(p) :
            /\ (n = Len(p) \/ i + n = Len(t))
            /\ i + n <= Len(t)
            /\ SubSeq(t, i + 1, i + n) = SubSeq(p, 1, n)

\* Python's `pk in texto`
Contains(t, p) ==
    \E i \in 0..(Len(t) - Len(p)) : SubSeq(t, i + 1, i + Len(p)) = p

(***************************************************************************)
(* Lexicon and patterns of es_factura_logic                                *)
(***************************************************************************)
palabras_clave_obligatorias ==
    <<"factura", "recibo", "ticket", "nota de crédito", "nota de débito",
      "comprobante">>

palabras_clave_opcionales ==
    <<"fecha de emisión", "período facturado", "fecha de vto.",
      "condición de venta", "condición frente al iva", "apellido y nombre",
      "razón social", "domicilio", "cuit", "ingresos brutos",
      "producto / servicio", "cantidad", "precio unit.", "subtotal",
      "importe total", "cae n°", "comprobante nro", "n°", "total">>

\* [-.\s]
SeparadorCuit(c) == c = "-" \/ c = "." \/ IsSpace(c)

\* the tax-ID pattern without its closing \b
patron_cuit_sin_limite(t, i) ==
    IF ~(WordBoundary(t, i) /\ IsDigit(CharAt(t, i + 1))) THEN {}
    ELSE {j \in (i + 11)..(i + 13) :
            /\ j <= Len(t)
            /\ \E s1 \in {0, 1}, s2 \in {0, 1} :
                  /\ j = i + 11 + s1 + s2
                  /\ AllDigits(t, i + 1, i + 2)
                  /\ (s1 = 1) => SeparadorCuit(CharAt(t, i + 3))
                  /\ AllDigits(t, i + 3 + s1, i + 10 + s1)
                  /\ (s2 = 1) => SeparadorCuit(CharAt(t, i + 11 + s1))
                  /\ AllDigits(t, j, j)}

\* r'\b\d{2}[-.\s]?\d{8}[-.\s]?\d{1}\b': the ends j of its matches
\* t[i+1..j] that start right after position i
patron_cuit(t, i) ==
    IF ~(WordBoundary(t, i) /\ IsDigit(CharAt(t, i + 1))) THEN {}
    ELSE {j \in (i + 11)..(i + 13) :
            /\ j <= Len(t)
            /\ WordBoundary(t, j)
            /\ \E s1 \in {0, 1}, s2 \in {0, 1} :
                  /\ j = i + 11 + s1 + s2
                  /\ AllDigits(t, i + 1, i + 2)
                  /\ (s1 = 1) => SeparadorCuit(CharAt(t, i + 3))
                  /\ AllDigits(t, i + 3 + s1, i + 10 + s1)
                  /\ (s2 = 1) => SeparadorCuit(CharAt(t, i + 11 + s1))
                  /\ AllDigits(t, j, j)}

\* [/-]
SeparadorFecha(c) == c = "/" \/ c = "-"

\* r'\b\d{1,2}[/-]\d{1,2}[/-]\d{2,4}\b': the ends j of its matches
\* t[i+1..j] that start right after position i
patron_fecha(t, i) ==
    IF ~(WordBoundary(t, i) /\ IsDigit(CharAt(t, i + 1))) THEN {}
    ELSE {j \in (i + 6)..(i + 10) :
            /\ j <= Len(t)
            /\ WordBoundary(t, j)
            /\ \E d \in 1..2, m \in 1..2, a \in 2..4 :
                  /\ j = i + d + 1 + m + 1 + a
                  /\ AllDigits(t, i + 1, i + d)
                  /\ SeparadorFecha(CharAt(t, i + d + 1))
                  /\ AllDigits(t, i + d + 2, i + d + 1 + m)
                  /\ SeparadorFecha(CharAt(t, i + d + m + 2))
                  /\ AllDigits(t, i + d + m + 3, j)}

\* (?:\d{1,3}(?:\.\d{3})*|\d+) matches exactly t[i+1..e]
ParteEntera(t, i, e) ==
    /\ e > i
    /\ \/ AllDigits(t, i + 1, e)
       \/ \E n \in 1..3 :
             /\ i + n <= e
             /\ (e - i - n) % 4 = 0
             /\ AllDigits(t, i + 1, i + n)
             /\ \A g \in 0..(((e - i - n) \div 4) - 1) :
                   /\ CharAt(t, i + n + 4 * g + 1) = "."
                   /\ AllDigits(t, i + n + 4 * g + 2, i + n + 4 * g + 4)

\* r'\b(?:\d{1,3}(?:\.\d{3})*|\d+)[,\.]\d{2}\b': the ends j of its matches
\* t[i+1..j] that start right after position i
patron_importe(t, i) ==
    IF ~(WordBoundary(t, i) /\ IsDigit(CharAt(t, i + 1))) THEN {}
    ELSE {j \in (i + 4)..Len(t) :
            /\ WordBoundary(t, j)
            /\ CharAt(t, j - 2) \in {",", "."}
            /\ AllDigits(t, j - 1, j)
            /\ ParteEntera(t, i, j - 3)}

\* re.search(patron_cuit, texto) is not None
re_search_cuit(t) == \E i \in 0..Len(t) : patron_cuit(t, i) # {}

\* re.search(patron_fecha, texto) is not None
re_search_fecha(t) == \E i \in 0..Len(t) : patron_fecha(t, i) # {}

\* re.search(patron_importe, texto) is not None
re_search_importe(t) == \E i \in 0..Len(t) : patron_importe(t, i) # {}

PuntosFecha == 1
PuntosImporte == 1
Umbral == 5

\* the tax-ID increment written as the date increment
PuntosCuit_como_fecha == PuntosFecha

PuntosCuit == 2

\* " ".join(texto_list).lower()
Corpus(lista) == lower(join(lista))

\* the gate run over the optional list
ObligatoriaPresente_opcionales(t) ==
    \E k \in 1..Len(palabras_clave_opcionales) :
        Contains(t, palabras_clave_opcionales[k])

\* the gate as texto.startswith(pk)
ObligatoriaPresente_al_inicio(t) ==
    \E k \in 1..Len(palabras_clave_obligatorias) :
        /\ Len(palabras_clave_obligatorias[k]) <= Len(t)
        /\ SubSeq(t, 1, Len(palabras_clave_obligatorias[k]))
             = palabras_clave_obligatorias[k]

\* any(pk in texto for pk in palabras_clave_obligatorias)
ObligatoriaPresente(t) ==
    \E k \in 1..Len(palabras_clave_obligatorias) :
        Contains(t, palabras_clave_obligatorias[k])

\* sum(1 for pk in palabras_clave_opcionales if pk in texto), first k entries
RECURSIVE SumaOpcionales(_, _)
SumaOpcionales(t, k) ==
    IF k = 0 THEN 0
    ELSE SumaOpcionales(t, k - 1)
         + (IF Contains(t, palabras_clave_opcionales[k]) THEN 1 ELSE 0)

\* the increments applied to puntuacion at lines 58, 61, 63 and 65
Puntos(t) ==
    [opcionales |-> SumaOpcionales(t, Len(palabras_clave_opcionales)),
     cuit |-> IF re_search_cuit(t) THEN PuntosCuit ELSE 0,
     fecha |-> IF re_search_fecha(t) THEN PuntosFecha ELSE 0,
     importe |-> IF re_search_importe(t) THEN PuntosImporte ELSE 0]

\* puntuacion > 5
AlcanzaUmbral_estricto(p) == p > Umbral

\* puntuacion >= 5
AlcanzaUmbral(p) == p >= Umbral

\* es_factura_logic: the frame of locals at the return and the value returned
es_factura_logic(lista) ==
    LET t == Corpus(lista)
        o == ObligatoriaPresente(t)
    IN  IF ~o
        THEN [linea |-> 55, texto |-> t, obligatoria_presente |-> o,
              valor |-> FALSE]
        ELSE LET pts == Puntos(t)
                 p == pts.opcionales + pts.cuit + pts.fecha + pts.importe
             IN  [linea |-> 68, texto |-> t, obligatoria_presente |-> o,
                  puntos |-> pts, puntuacion |-> p,
                  valor |-> AlcanzaUmbral(p)]

(***************************************************************************)
(* Inputs                                                                  *)
(***************************************************************************)
\* text runs a PDF page can yield
Fragmentos ==
    {"", "Factura", "cuit subtotal 20-12345678-9",
     "Factura cuit subtotal 20-12345678", "9",
     "Factura cuit subtotal 20-12345678-9", "2012345678", "20123456789",
     "201234567890", "1/1/202", "01/01/2024", "100,00", "recibo de pago",
     "cuit 20123456789", "Importe", "Total"}

\* fragment sequences of at most n entries
Listas(n) == UNION {[1..k -> Fragmentos] : k \in 0..n}

\* the strings of one page (canvas.strings)
Canvas ==
    {<<>>, <<"Factura", "cuit subtotal 20-12345678-9">>,
     <<"Factura cuit subtotal 20-12345678">>, <<"9">>,
     <<"recibo de pago", "cuit 20123456789">>}

\* documents: the pages the extractor yields, in page order
Documentos == UNION {[1..k -> Canvas] : k \in 0..MaxPaginas}

TiposContenido == {"application/pdf", "image/png", "text/plain"}

\* messages of the exceptions the reader and the extractor raise
Excepciones == {"unexpected EOF", "file is encrypted"}

(***************************************************************************)
(* State                                                                   *)
(***************************************************************************)
VARIABLES
    texto_list,     \* argument of es_factura_logic
    pc_logic,       \* "entrada" before the call, "retorno" after it
    locales,        \* frame of es_factura_logic at its return
    previa,         \* the call before this one and how its argument changed
    pc,             \* position of analizar_pdf ("reposo": no request yet)
    content_type,   \* file.content_type
    documento,      \* pages of the uploaded document
    llamadas,       \* read / SimplePDFViewer / es_factura_logic performed
    pagina,         \* pages consumed by `for canvas in viewer`
    texto_extraido, \* list built at lines 113-116
    es_fact,        \* result of line 119
    excepcion,      \* <<message>> of the exception caught at line 124
    respuestas      \* responses sent for this request

vars_logic == <<texto_list, pc_logic, locales, previa>>

vars_http ==
    <<pc, content_type, documento, llamadas, pagina, texto_extraido, es_fact,
      excepcion, respuestas>>

vars == <<vars_logic, vars_http>>

(***************************************************************************)
(* es_factura_logic applied to bounded inputs                              *)
(***************************************************************************)
InitLogicIdle ==
    /\ texto_list = <<>>
    /\ pc_logic = "entrada"
    /\ locales = [linea |-> 25]
    /\ previa = [op |-> "ninguna"]

InitHttpIdle ==
    /\ pc = "reposo"
    /\ content_type = "application/pdf"
    /\ documento = <<>>
    /\ llamadas = {}
    /\ pagina = 0
    /\ texto_extraido = <<>>
    /\ es_fact = FALSE
    /\ excepcion = <<>>
    /\ respuestas = <<>>

InitLogic ==
    /\ texto_list \in Listas(MaxFrags)
    /\ pc_logic = "entrada"
    /\ locales = [linea |-> 25]
    /\ previa = [op |-> "ninguna"]
    /\ InitHttpIdle

\* es_fact = es_factura_logic(texto_list)
Llamar ==
    /\ pc_logic = "entrada"
    /\ locales' = es_factura_logic(texto_list)
    /\ pc_logic' = "retorno"
    /\ UNCHANGED <<texto_list, previa, vars_http>>

\* the caller appends one fragment and calls again
Anexar(s) ==
    /\ pc_logic = "retorno"
    /\ Len(texto_list) < MaxFrags
    /\ previa' = [op |-> "append", texto_list |-> texto_list,
                  locales |-> locales]
    /\ texto_list' = Append(texto_list, s)
    /\ pc_logic' = "entrada"
    /\ locales' = [linea |-> 25]
    /\ UNCHANGED vars_http

\* lista reordered by the permutation p
Reordenar(lista, p) == [k \in 1..Len(lista) |-> lista[p[k]]]

\* the caller permutes the fragments and calls again
Permutar(p) ==
    /\ pc_logic = "retorno"
    /\ previa' = [op |-> "permutar", texto_list |-> texto_list,
                  locales |-> locales]
    /\ texto_list' = Reordenar(texto_list, p)
    /\ pc_logic' = "entrada"
    /\ locales' = [linea |-> 25]
    /\ UNCHANGED vars_http

NextLogic ==
    \/ Llamar
    \/ \E s \in Fragmentos : Anexar(s)
    \/ \E p \in Permutations(1..Len(texto_list)) : Permutar(p)

SpecLogic == InitLogic /\ [][NextLogic]_vars

(***************************************************************************)
(* analizar_pdf: POST /es_factura/                                         *)
(***************************************************************************)
HTTP_200_OK == 200
HTTP_400_BAD_REQUEST == 400
HTTP_500_INTERNAL_SERVER_ERROR == 500

\* detail of the HTTPException of lines 100-103
Detalle400 ==
    "Tipo de archivo no soportado. Por favor, sube un documento PDF (application/pdf)."

\* detail of the HTTPException of lines 127-130, built from str(e)
Detalle500(e) ==
    "Ocurrió un error inesperado al procesar el archivo: " \o e
    \o ". Por favor, inténtelo de nuevo o contacte al soporte."

\* the content-type check left out
TipoAceptado_siempre(ct) == TRUE

\* file.content_type != "application/pdf" is false
TipoAceptado(ct) == ct = "application/pdf"

\* texto_extraido = canvas.strings
extend_reemplaza(lista, strings) == strings

\* texto_extraido.extend(canvas.strings)
extend(lista, strings) == lista \o strings

\* a request arrives
Solicitud(ct, doc) ==
    /\ pc \in {"reposo", "fin"}
    /\ pc' = "validar"
    /\ content_type' = ct
    /\ documento' = doc
    /\ llamadas' = {}
    /\ pagina' = 0
    /\ texto_extraido' = <<>>
    /\ es_fact' = FALSE
    /\ excepcion' = <<>>
    /\ respuestas' = <<>>
    /\ UNCHANGED vars_logic

\* lines 99-103: raised outside the try, so the 400 goes to the client
ValidarTipo ==
    /\ pc = "validar"
    /\ IF TipoAceptado(content_type)
       THEN /\ pc' = "leer"
            /\ UNCHANGED respuestas
       ELSE /\ pc' = "fin"
            /\ respuestas' =
                 Append(respuestas, [status |-> HTTP_400_BAD_REQUEST,
                                     detail |-> Detalle400])
    /\ UNCHANGED <<content_type, documento, llamadas, pagina, texto_extraido,
                   es_fact, excepcion, vars_logic>>

\* lines 107-108: contents = await file.read()
Leer ==
    /\ pc = "leer"
    /\ llamadas' = llamadas \cup {"read"}
    /\ \/ /\ pc' = "visor"
          /\ UNCHANGED excepcion
       \/ \E e \in Excepciones :
             /\ pc' = "except"
             /\ excepcion' = <<e>>
    /\ UNCHANGED <<content_type, documento, pagina, texto_extraido, es_fact,
                   respuestas, vars_logic>>

\* lines 111-113: viewer = SimplePDFViewer(fd); texto_extraido = []
CrearVisor ==
    /\ pc = "visor"
    /\ llamadas' = llamadas \cup {"SimplePDFViewer"}
    /\ \/ /\ pc' = "iterar"
          /\ texto_extraido' = <<>>
          /\ UNCHANGED excepcion
       \/ \E e \in Excepciones :
             /\ pc' = "except"
             /\ excepcion' = <<e>>
             /\ UNCHANGED texto_extraido
    /\ UNCHANGED <<content_type, documento, pagina, es_fact, respuestas,
                   vars_logic>>

\* lines 115-116: one turn of `for canvas in viewer`
SiguientePagina ==
    /\ pc = "iterar"
    /\ \/ /\ pagina < Len(documento)
          /\ pagina' = pagina + 1
          /\ texto_extraido' = extend(texto_extraido, documento[pagina + 1])
          /\ UNCHANGED <<pc, excepcion>>
       \/ /\ pagina < Len(documento)
          /\ \E e \in Excepciones :
                /\ pc' = "except"
                /\ excepcion' = <<e>>
          /\ UNCHANGED <<pagina, texto_extraido>>
       \/ /\ pagina = Len(documento)
          /\ pc' = "clasificar"
          /\ UNCHANGED <<pagina, texto_extraido, excepcion>>
    /\ UNCHANGED <<content_type, documento, llamadas, es_fact, respuestas,
                   vars_logic>>

\* line 119: es_fact = es_factura_logic(texto_extraido)
Clasificar ==
    /\ pc = "clasificar"
    /\ llamadas' = llamadas \cup {"es_factura_logic"}
    /\ es_fact' = es_factura_logic(texto_extraido).valor
    /\ pc' = "retornar"
    /\ UNCHANGED <<content_type, documento, pagina, texto_extraido, excepcion,
                   respuestas, vars_logic>>

\* line 122: return EsFacturaResponse(es_factura=es_fact)
Retornar ==
    /\ pc = "retornar"
    /\ respuestas' =
         Append(respuestas, [status |-> HTTP_200_OK, es_factura |-> es_fact])
    /\ pc' = "fin"
    /\ UNCHANGED <<content_type, documento, llamadas, pagina, texto_extraido,
                   es_fact, excepcion, vars_logic>>

\* lines 124-130: except Exception as e: raise HTTPException(500, ...)
Except ==
    /\ pc = "except"
    /\ respuestas' =
         Append(respuestas, [status |-> HTTP_500_INTERNAL_SERVER_ERROR,
                             detail |-> Detalle500(excepcion[1])])
    /\ pc' = "fin"
    /\ UNCHANGED <<content_type, documento, llamadas, pagina, texto_extraido,
                   es_fact, excepcion, vars_logic>>

Init == InitLogicIdle /\ InitHttpIdle

Next ==
    \/ \E ct \in TiposContenido, doc \in Documentos : Solicitud(ct, doc)
    \/ ValidarTipo
    \/ Leer
    \/ CrearVisor
    \/ SiguientePagina
    \/ Clasificar
    \/ Retornar
    \/ Except

Spec == Init /\ [][Next]_vars

(***************************************************************************)
(* Properties                                                              *)
(***************************************************************************)
Retornado == pc_logic = "retorno"

\* the corpus of the call in progress
TextoActual == Corpus(texto_list)

Rango(f) == {f[k] : k \in DOMAIN f}

\* some mandatory phrase is a substring of t
TieneObligatoria(t) ==
    \E pk \in {"factura", "recibo", "ticket", "nota de crédito",
               "nota de débito", "comprobante"} : Contains(t, pk)

\* distinct optional phrases occurring in t
OpcionalesEn(t) ==
    {pk \in Rango(palabras_clave_opcionales) : Contains(t, pk)}

\* the score as the sum of its four parts
PuntajeDe(t) ==
    Cardinality(OpcionalesEn(t))
    + (IF re_search_cuit(t) THEN 2 ELSE 0)
    + (IF re_search_fecha(t) THEN 1 ELSE 0)
    + (IF re_search_importe(t) THEN 1 ELSE 0)

\* C1: a call whose corpus contains none of the 6 mandatory phrases returns
\* false at line 55, whatever its optional phrases and patterns would score.
C1_MandatoryGate ==
    (Retornado /\ ~TieneObligatoria(TextoActual))
        => (locales.valor = FALSE /\ locales.linea = 55)

\* C1 witness: no mandatory phrase, a score at or above the threshold, false.
C1_Witness ==
    /\ Retornado
    /\ ~TieneObligatoria(TextoActual)
    /\ PuntajeDe(TextoActual) >= 5
    /\ locales.valor = FALSE

\* C2: the call returns true iff the corpus has a mandatory phrase and
\* score >= 5, where score = distinct optional phrases present + 2 (tax-ID)
\* + 1 (date) + 1 (amount); 0 <= score <= 23; ["Factura"] returns false.
C2_DecisionRule ==
    Retornado =>
        LET t == TextoActual
            score == PuntajeDe(t)
        IN  /\ locales.valor = (TieneObligatoria(t) /\ score >= 5)
            /\ score >= 0 /\ score <= 23
            /\ Cardinality(Rango(palabras_clave_opcionales)) = 19
            /\ (locales.linea = 68) => (locales.puntuacion = score)
            /\ (texto_list = <<"Factura">>) => (locales.valor = FALSE)

\* C2 witness: a call that returns true with the score exactly 5.
C2_Witness ==
    /\ Retornado
    /\ locales.valor = TRUE
    /\ TieneObligatoria(TextoActual)
    /\ PuntajeDe(TextoActual) = 5

\* C3: every call returns a boolean, and a call with the empty sequence or
\* with empty strings only returns false.
C3_EmptyInput ==
    Retornado =>
        /\ locales.valor \in BOOLEAN
        /\ (\A k \in 1..Len(texto_list) : texto_list[k] = "")
              => (locales.valor = FALSE)

\* C3 witness: the call with the empty sequence has returned false.
C3_Witness == Retornado /\ texto_list = <<>> /\ locales.valor = FALSE

\* C4: a request whose content type is not application/pdf gets the 400 with
\* its detail message and nothing else; read, the extractor and
\* es_factura_logic are never called for it.
C4_ContentTypeFirst ==
    (pc # "reposo" /\ content_type # "application/pdf") =>
        /\ llamadas = {}
        /\ pc \in {"validar", "fin"}
        /\ (pc = "validar") => (respuestas = <<>>)
        /\ (pc = "fin") =>
              /\ Len(respuestas) = 1
              /\ respuestas[1].status = 400
              /\ respuestas[1].detail = Detalle400
              /\ Len(respuestas[1].detail) > 0

\* C4 witness: a non-PDF request answered with 400.
C4_Witness ==
    /\ pc = "fin"
    /\ content_type = "image/png"
    /\ Len(respuestas) = 1
    /\ respuestas[1].status = 400

\* the strings of the first n pages of doc, in page order
RECURSIVE Aplanar(_, _)
Aplanar(doc, n) ==
    IF n = 0 THEN <<>> ELSE Aplanar(doc, n - 1) \o doc[n]

\* C5: an application/pdf request ends in exactly one response: 200 with
\* es_factura = es_factura_logic(strings of all pages in page order) when no
\* step raised, else 500 whose detail carries the exception's message and no
\* es_factura value.
C5_AcceptedOutcome ==
    (pc = "fin" /\ content_type = "application/pdf") =>
        /\ Len(respuestas) = 1
        /\ \/ /\ excepcion = <<>>
              /\ respuestas[1] =
                   [status |-> 200,
                    es_factura |->
                        es_factura_logic(
                            Aplanar(documento, Len(documento))).valor]
              /\ (Aplanar(documento, Len(documento)) = <<>>)
                    => (respuestas[1].es_factura = FALSE)
           \/ /\ excepcion # <<>>
              /\ respuestas[1].status = 500
              /\ Contains(respuestas[1].detail, excepcion[1])
              /\ DOMAIN respuestas[1] = {"status", "detail"}

\* C5 witness: a two-page document, classified over both pages, answered 200
\* with es_factura true.
C5_Witness ==
    /\ pc = "fin"
    /\ content_type = "application/pdf"
    /\ Len(documento) = 2
    /\ respuestas = <<[status |-> 200, es_factura |-> TRUE]>>

\* positions in join(lista) of the separators inserted between fragments
Limites(lista) ==
    {Len(join(SubSeq(lista, 1, k))) + 1 : k \in 1..(Len(lista) - 1)}

\* p occurs in t over positions i+1..i+Len(p)
OcurreEn(t, p, i) ==
    /\ i >= 0
    /\ i + Len(p) <= Len(t)
    /\ SubSeq(t, i + 1, i + Len(p)) = p

\* some occurrence of a mandatory or optional phrase covers a separator
FraseCruzaLimite(lista) ==
    LET t == Corpus(lista)
    IN  \E b \in Limites(lista) :
            \E pk \in Rango(palabras_clave_obligatorias)
                        \cup Rango(palabras_clave_opcionales) :
                \E i \in (b - Len(pk))..(b - 1) : OcurreEn(t, pk, i)

\* some match of the tax-ID pattern covers a separator
CuitCruzaLimite(lista) ==
    LET t == Corpus(lista)
    IN  \E b \in Limites(lista) :
            \E i \in 0..(b - 1) : \E j \in patron_cuit(t, i) : b <= j

\* C6 as stated: permuting the fragments keeps the result whenever no
\* lexicon phrase spans a fragment boundary in either ordering.
C6_OrderIndependence ==
    (/\ Retornado
     /\ previa.op = "permutar"
     /\ ~FraseCruzaLimite(previa.texto_list)
     /\ ~FraseCruzaLimite(texto_list))
        => (locales.valor = previa.locales.valor)

\* C6 amended: permuting the fragments keeps the result whenever neither a
\* lexicon phrase nor a tax-ID pattern match spans a fragment boundary in
\* either ordering.
C6_OrderIndependenceAmended ==
    (/\ Retornado
     /\ previa.op = "permutar"
     /\ ~FraseCruzaLimite(previa.texto_list)
     /\ ~FraseCruzaLimite(texto_list)
     /\ ~CuitCruzaLimite(previa.texto_list)
     /\ ~CuitCruzaLimite(texto_list))
        => (locales.valor = previa.locales.valor)

\* C6 witness: a reordered sequence, nothing spanning a boundary, true both
\* times.
C6_Witness ==
    /\ Retornado
    /\ previa.op = "permutar"
    /\ previa.texto_list # texto_list
    /\ ~FraseCruzaLimite(previa.texto_list)
    /\ ~FraseCruzaLimite(texto_list)
    /\ ~CuitCruzaLimite(previa.texto_list)
    /\ ~CuitCruzaLimite(texto_list)
    /\ previa.locales.valor = TRUE
    /\ locales.valor = TRUE

\* positions of the digits of t
PosDigitos(t) == {k \in 1..Len(t) : IsDigit(CharAt(t, k))}

\* the set of positions P is one run of exactly n positions
UnaCorrida(P, n) ==
    /\ Cardinality(P) = n
    /\ \A a \in P, b \in P : b - a < n

\* the run P of digits of t has no word character next to it
CorridaAislada(t, P) ==
    \A a \in P :
        /\ (a - 1 \notin P) => ~IsWord(CharAt(t, a - 1))
        /\ (a + 1 \notin P) => ~IsWord(CharAt(t, a + 1))

\* C7: a corpus whose only digits are one run of exactly 10 or 12 digits has
\* no tax-ID match and gets no +2; one run of exactly 11 digits that is not
\* next to a word character matches and gets the +2.
C7_TaxIdDigitCount ==
    Retornado =>
        LET t == TextoActual
            P == PosDigitos(t)
        IN  /\ (UnaCorrida(P, 10) \/ UnaCorrida(P, 12)) =>
                  /\ ~re_search_cuit(t)
                  /\ (locales.linea = 68) => (locales.puntos.cuit = 0)
            /\ (UnaCorrida(P, 11) /\ CorridaAislada(t, P)) =>
                  /\ re_search_cuit(t)
                  /\ (locales.linea = 68) => (locales.puntos.cuit = 2)

\* C7 witness: the gate passed, the only digits are one run of 12, no +2.
C7_Witness ==
    /\ Retornado
    /\ locales.linea = 68
    /\ UnaCorrida(PosDigitos(TextoActual), 12)
    /\ locales.puntos.cuit = 0

EjemploRecibo == <<"recibo de pago", "cuit 20123456789">>

\* C8 as stated: for ["recibo de pago", "cuit 20123456789"] the gate passes,
\* the score is exactly 2 (only the tax-ID +2) and the result is false.
C8_WorkedExample ==
    (Retornado /\ texto_list = EjemploRecibo) =>
        /\ locales.obligatoria_presente
        /\ locales.puntuacion = 2
        /\ locales.puntos =
             [opcionales |-> 0, cuit |-> 2, fecha |-> 0, importe |-> 0]
        /\ locales.valor = FALSE

\* C8 amended: for ["recibo de pago", "cuit 20123456789"] the gate passes,
\* the score is exactly 3 (optional phrase "cuit" +1, tax-ID pattern +2) and
\* the result is false.
C8_WorkedExampleAmended ==
    (Retornado /\ texto_list = EjemploRecibo) =>
        /\ locales.obligatoria_presente
        /\ locales.puntuacion = 3
        /\ OpcionalesEn(TextoActual) = {"cuit"}
        /\ locales.puntos =
             [opcionales |-> 1, cuit |-> 2, fecha |-> 0, importe |-> 0]
        /\ locales.valor = FALSE

\* C8 witness: the worked example has been classified.
C8_Witness ==
    /\ Retornado
    /\ texto_list = EjemploRecibo
    /\ locales.linea = 68
    /\ locales.valor = FALSE

\* a word-bounded token d{1,2} sep d{1,2} sep with a year of exactly 2 or
\* exactly 4 digits ends at j and starts right after i
FechaAnio2o4(t, i, j) ==
    /\ WordBoundary(t, i)
    /\ WordBoundary(t, j)
    /\ j <= Len(t)
    /\ \E d \in 1..2, m \in 1..2, a \in {2, 4} :
          /\ j = i + d + 1 + m + 1 + a
          /\ AllDigits(t, i + 1, i + d)
          /\ CharAt(t, i + d + 1) \in {"/", "-"}
          /\ AllDigits(t, i + d + 2, i + d + 1 + m)
          /\ CharAt(t, i + d + m + 2) \in {"/", "-"}
          /\ AllDigits(t, i + d + m + 3, j)

\* C9: the date point is added only when the corpus holds a word-bounded
\* date token whose last group has exactly 2 or exactly 4 digits.
C9_DateYearWidth ==
    (Retornado /\ locales.linea = 68 /\ locales.puntos.fecha = 1) =>
        \E i \in 0..Len(TextoActual), j \in 0..Len(TextoActual) :
            FechaAnio2o4(TextoActual, i, j)

\* C10: appending a fragment to a sequence classified true gives true, and
\* no part of the score decreases.
C10_AppendMonotone ==
    (Retornado /\ previa.op = "append") =>
        /\ previa.locales.valor => locales.valor
        /\ previa.locales.obligatoria_presente
              => locales.obligatoria_presente
        /\ (previa.locales.linea = 68) =>
              /\ locales.linea = 68
              /\ locales.puntuacion >= previa.locales.puntuacion
              /\ locales.puntos.opcionales >= previa.locales.puntos.opcionales
              /\ locales.puntos.cuit >= previa.locales.puntos.cuit
              /\ locales.puntos.fecha >= previa.locales.puntos.fecha
              /\ locales.puntos.importe >= previa.locales.puntos.importe

\* C10 witness: a sequence classified true, one fragment appended, still true.
C10_Witness ==
    /\ Retornado
    /\ previa.op = "append"
    /\ previa.locales.valor = TRUE
    /\ texto_list = Append(previa.texto_list, texto_list[Len(texto_list)])
    /\ locales.valor = TRUE

====
